---------------------------- MODULE Spec2Model ----------------------------
(***************************************************************************)
(* Model of blaze/compute/core.py: the compute entry points, the hook      *)
(* pipeline, the scope binder and the two tree walks.                      *)
(*                                                                         *)
(* Every Python value (expression node, literal, container, bound data)    *)
(* is a record [k, n, a]: k is the runtime type the dispatcher sees, n a   *)
(* name or literal text, a the ordered arguments.  A Symbol's n stands for *)
(* the pair (_name, dshape).  The result of a user-registered rule is the  *)
(* uninterpreted term of kind "blob" over the arguments it was called on,  *)
(* so two evaluations agree exactly when they made the same rule calls.    *)
(***************************************************************************)
EXTENDS Naturals, Sequences, FiniteSets

VARIABLES
    pc,         \* position of the running call
    expr,       \* first argument of the call
    arg,        \* second argument: a scope (dict) or raw data
    d,          \* the scope handed to the pipeline
    expr2, d2,  \* output of swap_resources_into_scope
    expr3,      \* output of pre_compute
    expr4,      \* output of optimize, or expr3 after the swallowed error
    optSt,      \* how the optimize call ended
    result,     \* value returned to the caller
    err,        \* exception that left the call; "ok" when none
    errNames,   \* type names the exception message carries
    calls,      \* dispatcher calls made so far, in order
    upRules,    \* user-registered compute_up signatures
    downRules,  \* user-registered compute_down signatures
    preImpl, optImpl, postImpl, \* user-registered hook implementations
    resB, resT, \* outcomes of bottom_up and of top_to_bottom or of a rule
    again       \* output of swap_resources_into_scope on its own output

vars == <<pc, expr, arg, d, expr2, d2, expr3, expr4, optSt, result, err,
          errNames, calls, upRules, downRules, preImpl, optImpl, postImpl,
          resB, resT, again>>

-----------------------------------------------------------------------------
(* Values *)

Node(k, n, a) == [k |-> k, n |-> n, a |-> a]

None == Node("None", "", <<>>)

Symbol(n) == Node("Symbol", n, <<>>)

\* A resource-bound leaf: a leaf with its data attached as an argument.
Data(n, v) == Node("Data", n, <<v>>)

Item(key, v) == Node("item", "", <<key, v>>)

Dict(items) == Node("dict", "", items)

EmptyDict == Dict(<<>>)

ExprKinds == {"Symbol", "Data", "Head", "Join", "Union"}

BaseKinds == {"int", "str", "date"}

IsExpr(v) == v.k \in ExprKinds

\* issubclass(kind, sig) over the types the model has
IsSubclass(kind, sig) ==
    \/ sig = "object"
    \/ sig = kind
    \/ sig = "Expr" /\ kind \in ExprKinds
    \/ sig = "base" /\ kind \in BaseKinds

RECURSIVE Hashable(_)
Hashable(v) ==
    /\ v.k \notin {"list", "dict"}
    /\ v.k = "tuple" => \A i \in 1..Len(v.a) : Hashable(v.a[i])

-----------------------------------------------------------------------------
(* dict operations; a dict keeps its items in insertion order *)

Has(m, key) == \E i \in 1..Len(m.a) : m.a[i].a[1] = key

Get(m, key) == m.a[CHOOSE i \in 1..Len(m.a) : m.a[i].a[1] = key].a[2]

\* d.get(key)
GetOrNone(m, key) == IF Has(m, key) THEN Get(m, key) ELSE None

\* rv[key] = v
Put(m, key, v) ==
    IF Has(m, key)
    THEN Dict([i \in 1..Len(m.a) |->
                 IF m.a[i].a[1] = key THEN Item(key, v) ELSE m.a[i]])
    ELSE Dict(Append(m.a, Item(key, v)))

RECURSIVE Update(_, _)
Update(m, other) ==
    IF Len(other.a) = 0 THEN m
    ELSE Update(Put(m, other.a[1].a[1], other.a[1].a[2]), Dict(Tail(other.a)))


-----------------------------------------------------------------------------
(* The expression interface the core relies on: _inputs, _leaves,          *)
(* _subterms, __contains__, resources, _subs                               *)

\* Ordered children reached through a node: the inputs of an operator node,
\* the elements of a literal container.
Children(v) ==
    IF v.k \in {"Head", "Join", "Union", "list", "tuple"} THEN v.a ELSE <<>>

\* expr._inputs
Inputs(e) == IF e.k \in {"Head", "Join", "Union"} THEN e.a ELSE <<>>

RECURSIVE ConcatUnique(_, _)
ConcatUnique(acc, s) ==
    IF s = <<>> THEN acc
    ELSE ConcatUnique(IF \E i \in 1..Len(acc) : acc[i] = Head(s)
                      THEN acc ELSE Append(acc, Head(s)), Tail(s))

RECURSIVE Leaves(_), LeavesOfSeq(_)
\* expr._leaves(): the nodes without inputs, left to right, each once
Leaves(v) ==
    IF IsExpr(v) /\ Inputs(v) = <<>> THEN <<v>>
    ELSE LeavesOfSeq(Children(v))

LeavesOfSeq(s) ==
    IF s = <<>> THEN <<>>
    ELSE ConcatUnique(Leaves(Head(s)), LeavesOfSeq(Tail(s)))

RECURSIVE Subterms(_)
\* set(expr._subterms())
Subterms(v) ==
    {v} \cup UNION {Subterms(Children(v)[i]) : i \in 1..Len(Children(v))}

\* isinstance(x, Symbol)
IsSymbolInstance(x) == x.k = "Symbol"

\* e in expr
Contains(e, x) == x \in Subterms(e)

HasResource(v) == \E x \in Subterms(v) : x.k = "Data"

RECURSIVE ResourcesOfSeq(_)
ResourcesOfSeq(s) ==
    IF s = <<>> THEN EmptyDict
    ELSE Update(IF Head(s).k = "Data"
                THEN Dict(<<Item(Head(s), Head(s).a[1])>>) ELSE EmptyDict,
                ResourcesOfSeq(Tail(s)))

\* expr.resources(): {leaf: attached data} over the resource-bound leaves
Resources(e) == ResourcesOfSeq(Leaves(e))

RECURSIVE Subs(_, _)
\* expr._subs(mapping): a new tree, every occurrence of a key replaced
Subs(v, m) ==
    IF Has(m, v) THEN Get(m, v)
    ELSE IF Children(v) = <<>> THEN v
    ELSE Node(v.k, v.n, [i \in 1..Len(v.a) |-> Subs(v.a[i], m)])

-----------------------------------------------------------------------------
(* swap_resources_into_scope *)

\* variant: the entries of a written over those of b
MergeFirstWins(a, b) == Update(Update(EmptyDict, b), a)

\* variant: the entries of b left out
MergeDropsSecond(a, b) == Update(EmptyDict, a)

\* toolz.merge(a, b): a new dict, entries of b written over those of a
Merge(a, b) == Update(Update(EmptyDict, a), b)

\* dict((t, Symbol(t._name, t.dshape)) for t in resources)
SymbolDict(resources) ==
    Update(EmptyDict,
           Dict([i \in 1..Len(resources.a) |->
                   Item(resources.a[i].a[1], Symbol(resources.a[i].a[1].n))]))

\* dict((symbol_dict[k], v) for k, v in resources.items())
Rekey(resources, symbol_dict) ==
    Update(EmptyDict,
           Dict([i \in 1..Len(resources.a) |->
                   Item(Get(symbol_dict, resources.a[i].a[1]),
                        resources.a[i].a[2])]))

\* variant: the expression left as it was
SubsSkipped(e, symbol_dict) == e

\* expr._subs(symbol_dict)
SubsExpr(e, symbol_dict) == Subs(e, symbol_dict)

swap_resources_into_scope(e, scope) ==
    LET resources == Resources(e)
        symbol_dict == SymbolDict(resources)
    IN  [expr |-> SubsExpr(e, symbol_dict),
         scope |-> Merge(Rekey(resources, symbol_dict), scope)]

-----------------------------------------------------------------------------
(* Outcomes of a call: a returned value or a raised exception, with the    *)
(* dispatcher calls made on the way                                        *)

Call(f, args) == [f |-> f, args |-> args]

Ok(v, log) == [st |-> "ok", val |-> v, names |-> <<>>, log |-> log]

Raise(t, names, log) == [st |-> t, val |-> None, names |-> names, log |-> log]

Kinds(s) == [i \in 1..Len(s) |-> s[i].k]

-----------------------------------------------------------------------------
(* The dispatcher: resolve(types) picks the most specific registered       *)
(* signature of the same arity, or finds none                              *)

Matches(sig, types) ==
    /\ Len(sig) = Len(types)
    /\ \A i \in 1..Len(sig) : IsSubclass(types[i], sig[i])

Supercedes(a, b) ==
    /\ Len(a) = Len(b)
    /\ \A i \in 1..Len(a) : IsSubclass(a[i], b[i])

NotFound == <<>>

Resolve(rules, types) ==
    LET M == {s \in rules : Matches(s, types)}
        Least == {s \in M : \A t \in M : Supercedes(s, t)}
    IN  IF M = {} THEN NotFound
        ELSE IF Least # {} THEN CHOOSE s \in Least : TRUE
        ELSE CHOOSE s \in M : \A t \in M : Supercedes(t, s) => t = s

\* the rules core.py registers itself
UpBuiltin == {<<"object", "object">>, <<"base">>, <<"list">>, <<"tuple">>,
              <<"Union", "list">>, <<"Union", "tuple">>}

DownBuiltin == {<<"object">>}

-----------------------------------------------------------------------------
(* Hooks: pre_compute, optimize, post_compute *)

\* what a user-registered pre_compute for (Head, dict) does here
PreRewrite(e) == IF e.k = "Head" /\ IsExpr(e.a[1]) THEN e.a[1] ELSE e

\* what a user-registered optimize for (Expr, blob) does here
OptRewrite(e) ==
    IF e.k = "Join" THEN Node("Join", e.n, <<e.a[2], e.a[1]>>)
    ELSE IF e.k = "Head" /\ e.a[1].k = "Head" THEN e.a[1]
    ELSE e

pre_compute(e, scope) ==
    LET log == <<Call("pre_compute", <<e, scope>>)>>
    IN  IF preImpl = "rewrite" /\ e.k = "Head" THEN Ok(PreRewrite(e), log)
        ELSE Ok(e, log)

RECURSIVE BoundData(_, _)
\* [v for e, v in d2.items() if e in expr3]
BoundData(items, e) ==
    IF items = <<>> THEN <<>>
    ELSE (IF Contains(e, Head(items).a[1]) THEN <<Head(items).a[2]>> ELSE <<>>)
         \o BoundData(Tail(items), e)

optimize(e, data) ==
    LET log == <<Call("optimize", <<e>> \o data)>>
    IN  IF Len(data) # 1
        THEN Raise("NotImplementedError", <<e.k>> \o Kinds(data), log)
        ELSE IF optImpl = "default" \/ data[1].k # "blob" THEN Ok(e, log)
        ELSE IF optImpl = "rewrite" THEN Ok(OptRewrite(e), log)
        ELSE IF optImpl = "notsupported"
        THEN Raise("NotImplementedError", <<>>, log)
        ELSE Raise("RuntimeError", <<>>, log)

\* variant: no except clause
OptimizeOrRaise(e3, o) == o

\* try: optimize(...) except NotImplementedError: expr4 = expr3
OptimizeOrKeep(e3, o) ==
    IF o.st = "NotImplementedError" THEN Ok(e3, o.log) ELSE o

post_compute(e, r, scope) ==
    LET log == <<Call("post_compute", <<e, r, scope>>)>>
    IN  IF postImpl = "wrap" /\ r.k = "blob"
        THEN Ok(Node("blob", "post_compute", <<e, r>>), log)
        ELSE Ok(r, log)

-----------------------------------------------------------------------------
(* The evaluator and the rules it dispatches to *)

\* outcome of evaluating a sequence of children, left to right
OkSeq(vals, log) == [st |-> "ok", vals |-> vals, names |-> <<>>, log |-> log]

RaiseSeq(o, log) == [st |-> o.st, vals |-> <<>>, names |-> o.names, log |-> log]

\* the outcome r, after the calls in log
WithLog(log, r) == [r EXCEPT !.log = log \o r.log]

\* a comprehension over a sequence: the outcome h of the first element,
\* then, when h returned, the outcome t of the rest
ConsOutcome(h, t) ==
    IF h.st # "ok" THEN RaiseSeq(h, h.log)
    ELSE IF t.st # "ok" THEN RaiseSeq(t, h.log \o t.log)
    ELSE OkSeq(<<h.val>> \o t.vals, h.log \o t.log)

\* result of a user-registered rule: the term over what it was called on
UserRule(f, args) == Node("blob", f, args)

RECURSIVE compute_up(_, _, _), ComputeItems(_, _), compute(_, _),
          top_to_bottom(_, _), TopChildren(_, _),
          bottom_up(_, _), BottomChildren(_, _)

\* variant: returns None where the rule raises
NoRuleReturns(a, b, log) == Ok(None, log)

\* compute_up(object, object): no rule for this node on this data
NoRule(a, b, log) == Raise("NotImplementedError", <<a.k, b.k>>, log)

\* compute_up(base): return a
BaseRule(a, log) == Ok(a, log)

\* compute_up((list, tuple)): type(seq)(...) over the computed items r
SeqRule(seq, r, log) ==
    IF r.st = "ok" THEN Ok(Node(seq.k, seq.n, r.vals), log \o r.log)
    ELSE Raise(r.st, r.names, log \o r.log)

\* the rule the dispatcher resolved to sig, applied
UpRule(sig, e, children, scope, log) ==
    IF sig = NotFound THEN Raise("NotImplementedError", Kinds(<<e>> \o children), log)
    ELSE IF sig = <<"object", "object">> THEN NoRule(e, children[1], log)
    ELSE IF sig = <<"base">> THEN BaseRule(e, log)
    ELSE IF sig \in {<<"list">>, <<"tuple">>}
    THEN SeqRule(e, ComputeItems(e.a, scope), log)
    ELSE IF sig \in {<<"Union", "list">>, <<"Union", "tuple">>}
    THEN IF children[1].a = <<>> THEN Raise("IndexError", <<>>, log)
         ELSE WithLog(log, compute_up(e, <<children[1].a[1],
                                           Node("tuple", "", children[1].a)>>,
                                      EmptyDict))
    ELSE Ok(UserRule("compute_up", <<e>> \o children), log)

\* compute_up(expr, *children, scope=scope) through the dispatcher
compute_up(e, children, scope) ==
    UpRule(Resolve(UpBuiltin \cup upRules, Kinds(<<e>> \o children)),
           e, children, scope, <<Call("compute_up", <<e>> \o children)>>)

\* (compute(item, scope) for item in seq)
ComputeItems(s, scope) ==
    IF s = <<>> THEN OkSeq(<<>>, <<>>)
    ELSE ConsOutcome(compute(Head(s), scope), ComputeItems(Tail(s), scope))

DownRule(sig, e, leaves, log) ==
    IF sig = NotFound
    THEN Raise("NotImplementedError", Kinds(<<e>> \o leaves), log)
    ELSE IF sig = <<"object">> THEN Ok(e, log)
    ELSE Ok(UserRule("compute_down", <<e>> \o leaves), log)

\* compute_down(expr, *leaves) through the dispatcher
compute_down(e, leaves) ==
    DownRule(Resolve(DownBuiltin \cup downRules, Kinds(<<e>> \o leaves)),
             e, leaves, <<Call("compute_down", <<e>> \o leaves)>>)

\* compute_down.resolve((type(expr),) + tuple(type(d.get(leaf)) ...))
ProbeLeaves(scope, e, leaves) ==
    Resolve(DownBuiltin \cup downRules,
            <<e.k>> \o [i \in 1..Len(leaves) |->
                          GetOrNone(scope, leaves[i]).k]) # NotFound

Probe(scope, e) == ProbeLeaves(scope, e, Leaves(e))

\* [d[leaf] for leaf in expr._leaves()]
FetchFrom(scope, leaves) ==
    IF \E i \in 1..Len(leaves) : ~Has(scope, leaves[i])
    THEN Raise("KeyError", <<>>, <<>>)
    ELSE Ok(Node("list", "", [i \in 1..Len(leaves) |-> Get(scope, leaves[i])]),
            <<>>)

FetchLeaves(scope, e) == FetchFrom(scope, Leaves(e))

\* return compute_down(expr, *leaves), given the fetched leaves f
Fused(e, f) == IF f.st # "ok" THEN f ELSE compute_down(e, f.val.a)

\* return compute_up(expr, *children, scope=d), given the children c
UpAfterChildren(e, c, scope) ==
    IF c.st # "ok" THEN Raise(c.st, c.names, c.log)
    ELSE WithLog(c.log, compute_up(e, c.vals, scope))

top_to_bottom(scope, e) ==
    IF ~Hashable(e) THEN Raise("TypeError", <<e.k>>, <<>>)
    ELSE IF Has(scope, e) THEN Ok(Get(scope, e), <<>>)
    ELSE IF IsExpr(e) /\ Probe(scope, e) THEN Fused(e, FetchLeaves(scope, e))
    ELSE UpAfterChildren(e, TopChildren(scope, Inputs(e)), scope)

TopChildren(scope, s) ==
    IF s = <<>> THEN OkSeq(<<>>, <<>>)
    ELSE ConsOutcome(top_to_bottom(scope, Head(s)), TopChildren(scope, Tail(s)))

bottom_up(scope, e) ==
    IF ~Hashable(e) THEN Raise("TypeError", <<e.k>>, <<>>)
    ELSE IF Has(scope, e) THEN Ok(Get(scope, e), <<>>)
    ELSE UpAfterChildren(e, BottomChildren(scope, Inputs(e)), scope)

BottomChildren(scope, s) ==
    IF s = <<>> THEN OkSeq(<<>>, <<>>)
    ELSE ConsOutcome(bottom_up(scope, Head(s)), BottomChildren(scope, Tail(s)))

-----------------------------------------------------------------------------
(* compute *)

\* set([x for x in expr._subterms() if isinstance(x, Symbol)])
SymbolsOf(e) == {x \in Subterms(e) : IsSymbolInstance(x)}

\* variant: the symbol bound to None
OneEntryScopeUnbound(ts, o) == Dict(<<Item(CHOOSE x \in ts : TRUE, None)>>)

\* {first(ts): o}
OneEntryScope(ts, o) == Dict(<<Item(CHOOSE x \in ts : TRUE, o)>>)

\* return post_compute(expr4, result, d2), given the evaluator's outcome r
PostAfter(e4, scope, log, r) ==
    IF r.st # "ok" THEN WithLog(log, r)
    ELSE WithLog(log \o r.log, post_compute(e4, r.val, scope))

\* the steps of compute(expr, d) after optimize
EvalAndPost(e4, scope, log) ==
    PostAfter(e4, scope, log, top_to_bottom(scope, e4))

\* the steps after the optimize call ended as o
AfterOptimize(log, o, scope) ==
    IF o.st # "ok" THEN WithLog(log, o)
    ELSE EvalAndPost(o.val, scope, log \o o.log)

\* the steps after pre_compute returned p
AfterPre(p, scope) ==
    AfterOptimize(p.log,
                  OptimizeOrKeep(p.val,
                                 optimize(p.val, BoundData(scope.a, p.val))),
                  scope)

\* the steps after swap_resources_into_scope returned sw
AfterSwap(sw) == AfterPre(pre_compute(sw.expr, sw.scope), sw.scope)

\* compute(expr, d) for a dict d
ComputeDict(e, scope) == AfterSwap(swap_resources_into_scope(e, scope))

\* compute(expr, o) for any other o, given ts, the symbols of expr
ComputeObject(e, o, ts) ==
    IF Cardinality(ts) = 1 THEN ComputeDict(e, OneEntryScope(ts, o))
    ELSE Raise("ValueError", <<>>, <<>>)

\* compute(a, b) through the dispatcher: (Expr, dict) before (Expr, object)
compute(a, b) ==
    IF ~IsExpr(a) THEN Raise("NotImplementedError", <<a.k, b.k>>, <<>>)
    ELSE IF b.k = "dict" THEN ComputeDict(a, b)
    ELSE ComputeObject(a, b, SymbolsOf(a))

-----------------------------------------------------------------------------
(* Inputs *)

\* largest number of nodes of an input expression
MaxNodes == 3

\* largest number of elements of an input list or tuple literal
MaxLen == 2

Names == {"t", "u"}

Blob(n) == Node("blob", n, <<>>)

Int(n) == Node("int", n, <<>>)

Atoms ==
    {Symbol(n) : n \in Names}
    \cup {Data("t", Blob("A")), Data("u", Blob("B"))}
    \cup {Int("1"), Node("tuple", "", <<>>), Node("list", "", <<>>)}

RECURSIVE BySize(_)
\* the input values of exactly n nodes
BySize(n) ==
    IF n = 1 THEN Atoms
    ELSE {Node("Head", "", <<x>>) : x \in BySize(n - 1)}
         \cup {Node("tuple", "", <<x>>) : x \in BySize(n - 1)}
         \cup {Node("Union", "", <<x>>) : x \in {y \in BySize(n - 1) : y.k = "tuple"}}
         \cup UNION {{Node("Join", "", <<x, y>>) :
                         x \in BySize(i), y \in BySize(n - 1 - i)} :
                     i \in 1..(n - 2)}

Trees == UNION {BySize(n) : n \in 1..MaxNodes}

ExprTrees == {v \in Trees : IsExpr(v)}

\* the scopes a caller passes: symbols, and one inner node, bound to data
Scopes ==
    {Dict(<<>>),
     Dict(<<Item(Symbol("t"), Blob("A"))>>),
     Dict(<<Item(Symbol("u"), Blob("B"))>>),
     Dict(<<Item(Symbol("t"), Blob("A")), Item(Symbol("u"), Blob("B"))>>),
     Dict(<<Item(Symbol("t"), Blob("B")), Item(Symbol("u"), Int("1"))>>),
     Dict(<<Item(Symbol("t"), Int("1"))>>),
     Dict(<<Item(Node("Head", "", <<Symbol("t")>>), Blob("A"))>>),
     Dict(<<Item(Symbol("u"), Blob("A")),
            Item(Node("Head", "", <<Symbol("t")>>), Blob("B"))>>)}

\* raw data a caller passes in place of a scope
RawData == {Blob("A"), Int("1"), Node("list", "", <<Int("1")>>)}

\* user-registered <<compute_up, compute_down>> rules
Registries ==
    {<<{}, {}>>,
     <<{<<"Head", "blob">>, <<"Join", "blob", "blob">>, <<"Head", "tuple">>}, {}>>,
     <<{<<"Head", "blob">>, <<"Join", "blob", "blob">>}, {<<"Head", "blob">>}>>,
     <<{<<"Head", "blob">>, <<"Symbol">>},
       {<<"Head", "object">>, <<"Join", "blob", "blob">>}>>}

\* user-registered <<pre_compute, optimize, post_compute>> implementations
Hooks ==
    {<<"default", "default", "default">>,
     <<"rewrite", "default", "wrap">>,
     <<"default", "rewrite", "default">>,
     <<"rewrite", "notsupported", "default">>,
     <<"default", "notsupported", "wrap">>,
     <<"default", "fails", "default">>}

NoOutcome == [st |-> "none", val |-> None, names |-> <<>>, log |-> <<>>]

NoSwap == [expr |-> None, scope |-> None]

\* nothing has run yet
FreshBut ==
    /\ expr2 = None /\ d2 = None /\ expr3 = None /\ expr4 = None
    /\ optSt = "none" /\ result = None /\ err = "ok" /\ errNames = <<>>
    /\ calls = <<>> /\ resB = NoOutcome /\ resT = NoOutcome
    /\ again = NoSwap

Fresh == d = None /\ FreshBut

Registered ==
    /\ \E r \in Registries : upRules = r[1] /\ downRules = r[2]
    /\ \E h \in Hooks : preImpl = h[1] /\ optImpl = h[2] /\ postImpl = h[3]

Init ==
    /\ pc = "call"
    /\ expr \in ExprTrees
    /\ arg \in Scopes \cup RawData
    /\ Registered
    /\ Fresh

-----------------------------------------------------------------------------
(* compute(expr, arg), a step at a time *)

Config == <<upRules, downRules, preImpl, optImpl, postImpl>>

Walks == <<resB, resT, again>>

\* the dispatcher picks compute(Expr, dict) for a dict
EnterDict ==
    /\ pc = "call" /\ arg.k = "dict"
    /\ d' = arg
    /\ pc' = "bind"
    /\ UNCHANGED <<expr, arg, expr2, d2, expr3, expr4, optSt, result, err,
                   errNames, calls, Config, Walks>>

\* variant: len(ts) >= 1
EnterWithSome(ts) ==
    IF Cardinality(ts) >= 1
    THEN d' = OneEntryScope(ts, arg) /\ pc' = "bind" /\ err' = err
    ELSE d' = d /\ pc' = "raised" /\ err' = "ValueError"

\* if len(ts) == 1: ... else: raise ValueError
EnterWith(ts) ==
    IF Cardinality(ts) = 1
    THEN d' = OneEntryScope(ts, arg) /\ pc' = "bind" /\ err' = err
    ELSE d' = d /\ pc' = "raised" /\ err' = "ValueError"

\* compute(Expr, object)
EnterObject ==
    /\ pc = "call" /\ arg.k # "dict"
    /\ EnterWith(SymbolsOf(expr))
    /\ UNCHANGED <<expr, arg, expr2, d2, expr3, expr4, optSt, result,
                   errNames, calls, Config, Walks>>

\* expr2, d2 = swap_resources_into_scope(expr, d)
BindTo(sw) == expr2' = sw.expr /\ d2' = sw.scope

Bind ==
    /\ pc = "bind"
    /\ BindTo(swap_resources_into_scope(expr, d))
    /\ pc' = "pre"
    /\ UNCHANGED <<expr, arg, d, expr3, expr4, optSt, result, err, errNames,
                   calls, Config, Walks>>

PreTo(p) == expr3' = p.val /\ calls' = calls \o p.log

PreCompute ==
    /\ pc = "pre"
    /\ PreTo(pre_compute(expr2, d2))
    /\ pc' = "opt"
    /\ UNCHANGED <<expr, arg, d, expr2, d2, expr4, optSt, result, err,
                   errNames, Config, Walks>>

\* the optimize call ended as o; k is what the try statement leaves
OptimizeTo(o, k) ==
    /\ optSt' = o.st
    /\ calls' = calls \o o.log
    /\ IF k.st = "ok"
       THEN expr4' = k.val /\ pc' = "eval" /\ UNCHANGED <<err, errNames>>
       ELSE /\ expr4' = expr4 /\ pc' = "raised"
            /\ err' = k.st /\ errNames' = k.names

OptimizeCall(o) == OptimizeTo(o, OptimizeOrKeep(expr3, o))

Optimize ==
    /\ pc = "opt"
    /\ OptimizeCall(optimize(expr3, BoundData(d2.a, expr3)))
    /\ UNCHANGED <<expr, arg, d, expr2, d2, expr3, result, Config, Walks>>

EvaluateTo(r) ==
    /\ calls' = calls \o r.log
    /\ IF r.st = "ok"
       THEN result' = r.val /\ pc' = "post" /\ UNCHANGED <<err, errNames>>
       ELSE /\ result' = result /\ pc' = "raised"
            /\ err' = r.st /\ errNames' = r.names

Evaluate ==
    /\ pc = "eval"
    /\ EvaluateTo(top_to_bottom(d2, expr4))
    /\ UNCHANGED <<expr, arg, d, expr2, d2, expr3, expr4, optSt, Config, Walks>>

PostTo(q) == result' = q.val /\ calls' = calls \o q.log

PostCompute ==
    /\ pc = "post"
    /\ PostTo(post_compute(expr4, result, d2))
    /\ pc' = "done"
    /\ UNCHANGED <<expr, arg, d, expr2, d2, expr3, expr4, optSt, err,
                   errNames, Config, Walks>>

Next ==
    \/ EnterDict
    \/ EnterObject
    \/ Bind
    \/ PreCompute
    \/ Optimize
    \/ Evaluate
    \/ PostCompute

Spec == Init /\ [][Next]_vars

-----------------------------------------------------------------------------
(* swap_resources_into_scope alone, applied once and then to its output *)

Pipeline == <<expr3, expr4, optSt, result, err, errNames, calls>>

InitBinder ==
    /\ pc = "bind"
    /\ expr \in ExprTrees
    /\ arg \in Scopes
    /\ Registered
    /\ FreshBut
    /\ d = arg

Rebind ==
    /\ pc = "pre"
    /\ again' = swap_resources_into_scope(expr2, d2)
    /\ pc' = "rebound"
    /\ UNCHANGED <<expr, arg, d, expr2, d2, Pipeline, Config, resB, resT>>

NextBinder == Bind \/ Rebind

SpecBinder == InitBinder /\ [][NextBinder]_vars

-----------------------------------------------------------------------------
(* The two walks on the same scope and expression *)

InitWalk ==
    /\ pc = "walk"
    /\ expr \in Trees
    /\ arg \in Scopes
    /\ Registered
    /\ FreshBut
    /\ d = arg

WalkTop ==
    /\ pc = "walk" /\ resT = NoOutcome
    /\ resT' = top_to_bottom(d, expr)
    /\ UNCHANGED <<pc, expr, arg, d, expr2, d2, Pipeline, Config, resB, again>>

WalkBottom ==
    /\ pc = "walk" /\ resB = NoOutcome
    /\ resB' = bottom_up(d, expr)
    /\ UNCHANGED <<pc, expr, arg, d, expr2, d2, Pipeline, Config, resT, again>>

NextWalk == WalkTop \/ WalkBottom

SpecWalk == InitWalk /\ [][NextWalk]_vars

-----------------------------------------------------------------------------
(* The rule for list and tuple literals, called on a literal *)

Elems ==
    {Int("1"), Node("str", "a", <<>>), Node("date", "2014-01-01", <<>>),
     Symbol("t"), Node("Head", "", <<Symbol("t")>>), Data("u", Blob("B"))}

RECURSIVE ElemSeqs(_)
ElemSeqs(n) ==
    IF n = 0 THEN {<<>>}
    ELSE ElemSeqs(n - 1)
         \cup {Append(s, x) : s \in {q \in ElemSeqs(n - 1) : Len(q) = n - 1},
                              x \in Elems}

Literals == {Node(k, "", s) : k \in {"list", "tuple"}, s \in ElemSeqs(MaxLen)}

InitRule ==
    /\ pc = "rule"
    /\ expr \in Literals
    /\ arg \in Scopes
    /\ Registered
    /\ FreshBut
    /\ d = arg

ApplyRule ==
    /\ pc = "rule"
    /\ resT' = compute_up(expr, <<>>, d)
    /\ pc' = "ruled"
    /\ UNCHANGED <<expr, arg, d, expr2, d2, Pipeline, Config, resB, again>>

NextRule == ApplyRule

SpecRule == InitRule /\ [][NextRule]_vars

-----------------------------------------------------------------------------
(* Properties *)

Returned == pc \in {"done", "raised"}

RawCall == arg.k # "dict"

\* the running call ended as the outcome o did: same value or exception,
\* same dispatcher calls
SameOutcome(o) ==
    /\ calls = o.log
    /\ pc = "done" => o.st = "ok" /\ result = o.val
    /\ pc = "raised" => o.st = err /\ errNames = o.names

\* C1 as stated: for an expression with exactly one free symbol s and data of
\* every kind, a mapping included, compute(expr, data) ends as
\* compute(expr, {s: data}) does.
C1_AnyData ==
    Returned /\ Cardinality(SymbolsOf(expr)) = 1
    => \A s \in SymbolsOf(expr) :
          SameOutcome(ComputeDict(expr, Dict(<<Item(s, arg)>>)))

\* C1, amended: for an expression with exactly one free symbol s and data that
\* is not a mapping, compute(expr, data) ends as compute(expr, {s: data})
\* does: same result or exception, same dispatcher calls.
C1_SingleSource ==
    Returned /\ RawCall /\ Cardinality(SymbolsOf(expr)) = 1
    => \A s \in SymbolsOf(expr) :
          SameOutcome(ComputeDict(expr, Dict(<<Item(s, arg)>>)))

C1_Witness ==
    /\ pc = "done" /\ RawCall /\ Cardinality(SymbolsOf(expr)) = 1
    /\ result.k = "blob" /\ result.n = "compute_up"

\* the calls of the steps that follow optimize, and how they ended, are those
\* of the outcome o
SameTail(o, n) ==
    /\ Len(calls) = n + Len(o.log)
    /\ \A i \in 1..Len(o.log) : calls[n + i] = o.log[i]
    /\ pc = "done" => o.st = "ok" /\ result = o.val
    /\ pc = "raised" => o.st = err /\ errNames = o.names

\* C2: an optimize call that ends in "not supported" does not end compute:
\* the pipeline goes on with expr3, the output of pre_compute, and ends as
\* the evaluator and post_compute run on expr3 end.
C2_NotSupportedSkipped ==
    optSt = "NotImplementedError"
    => /\ pc \in {"eval", "post", "done", "raised"}
       /\ expr4 = expr3
       /\ Returned => SameTail(EvalAndPost(expr3, d2, <<>>), 2)

C2_Witness ==
    /\ pc = "done" /\ optImpl = "notsupported" /\ optSt = "NotImplementedError"
    /\ expr3 # expr2 /\ result.k = "blob"

\* both walks have run on (d, expr)
Walked == resT # NoOutcome /\ resB # NoOutcome

\* C3 as stated: with no user-registered compute_down rule, top_to_bottom and
\* bottom_up end alike on every expression and scope, expressions without
\* leaves and unbound leaves included.
C3_WalksAgree ==
    Walked /\ downRules = {}
    => resT.st = resB.st /\ resT.val = resB.val /\ resT.names = resB.names

\* the calls in log start with those of prefix, and call comes right after
CallAfter(log, prefix, call) ==
    /\ Len(log) > Len(prefix)
    /\ \A i \in 1..Len(prefix) : log[i] = prefix[i]
    /\ log[Len(prefix) + 1] = call

\* top_to_bottom took the fused path: one compute_down call on the node and
\* the leaves' bound values, no compute_up call
FusedOnce(e, leaves) ==
    resT.log = <<Call("compute_down",
                      <<e>> \o [i \in 1..Len(leaves) |-> GetOrNone(d, leaves[i])])>>

\* top_to_bottom took the per-node path: the children c first, left to
\* right, then compute_up on the node and the computed children
ChildrenThenUp(e, c) ==
    IF c.st = "ok"
    THEN CallAfter(resT.log, c.log, Call("compute_up", <<e>> \o c.vals))
    ELSE resT.log = c.log /\ resT.st = c.st

\* C8 as stated: on a node that is not a key of the scope, top_to_bottom makes
\* exactly one compute_down call (and no compute_up call) when a fused rule is
\* registered for the node and the kinds of its leaves' bound values, and
\* otherwise evaluates every child, left to right, before it calls compute_up
\* on the node with the computed children.
C8_FusedOrPerNode ==
    resT # NoOutcome /\ IsExpr(expr) /\ ~Has(d, expr)
    => IF Probe(d, expr) THEN FusedOnce(expr, Leaves(expr))
       ELSE ChildrenThenUp(expr, TopChildren(d, Inputs(expr)))

\* C4: no pre_compute, optimize, compute_down, compute_up or post_compute
\* call receives an argument with a resource-bound leaf in it, and the
\* expression that leaves the scope binder has none.
C4_NoResourceDispatched ==
    /\ \A i \in 1..Len(calls) : \A j \in 1..Len(calls[i].args) :
          ~HasResource(calls[i].args[j])
    /\ pc \in {"pre", "opt", "eval", "post", "done"} => ~HasResource(expr2)

C4_Witness ==
    /\ pc = "done" /\ HasResource(expr) /\ result.k = "blob"
    /\ \E i \in 1..Len(calls) : calls[i].f = "compute_up"

Bound == pc \in {"pre", "rebound"}

\* C5: every key of the caller's scope keeps the caller's value in the scope
\* the binder returns, and the caller's scope is as it was passed.
C5_CallerEntriesWin ==
    Bound
    => /\ d = arg
       /\ \A i \in 1..Len(d.a) :
             Has(d2, d.a[i].a[1]) /\ Get(d2, d.a[i].a[1]) = d.a[i].a[2]

\* a resource whose new symbol is a key of the caller's scope, bound there
\* to other data
C5_Witness ==
    /\ Bound
    /\ \E x \in Subterms(expr) :
          /\ x.k = "Data" /\ Has(d, Symbol(x.n))
          /\ Get(d, Symbol(x.n)) # x.a[1]

\* C6: the binder applied to its own output returns that output, and an
\* expression without resource-bound leaves passes through with the
\* expression and the scope unchanged.
C6_BinderIdempotent ==
    /\ pc = "rebound" => again = [expr |-> expr2, scope |-> d2]
    /\ Bound /\ ~HasResource(expr) => expr2 = expr /\ d2 = d

C6_Witness ==
    /\ pc = "rebound" /\ HasResource(expr) /\ expr2 # expr /\ d2 # d
    /\ again.scope = d2

\* C7: compute(expr, data) on data that is no dict raises ValueError when expr
\* has no or several distinct symbols, and no step of the pipeline has run.
C7_AmbiguousSymbols ==
    pc # "call" /\ RawCall /\ Cardinality(SymbolsOf(expr)) # 1
    => /\ pc = "raised" /\ err = "ValueError"
       /\ calls = <<>> /\ d = None /\ expr2 = None /\ d2 = None
       /\ expr3 = None /\ expr4 = None /\ result = None

C7_Witness ==
    /\ pc = "raised" /\ err = "ValueError" /\ RawCall
    /\ Cardinality(SymbolsOf(expr)) = 2

AllBase(seq) == \A i \in 1..Len(seq.a) : seq.a[i].k \in BaseKinds

\* C9 as stated, on literals of scalar, string and date values: the rule for
\* a list or tuple returns a container equal to the literal.
C9_ScalarLiteral ==
    pc = "ruled" /\ AllBase(expr) => resT.st = "ok" /\ resT.val = expr

\* no per-node rule is registered for the kinds of these arguments
NoRuleFor(args) ==
    Resolve(UpBuiltin \cup upRules, Kinds(args))
        \in {NotFound, <<"object", "object">>}

\* C10: a compute_up call on kinds no per-node rule is registered for is the
\* last dispatcher call of the run: compute raises NotImplementedError naming
\* the kinds of the node and of its arguments, and returns no result.
C10_NoRuleIsFatal ==
    \A i \in 1..Len(calls) :
        calls[i].f = "compute_up" /\ NoRuleFor(calls[i].args)
        => /\ i = Len(calls)
           /\ pc = "raised" /\ err = "NotImplementedError"
           /\ errNames = Kinds(calls[i].args)
           /\ result = None

C10_Witness ==
    /\ pc = "raised" /\ err = "NotImplementedError" /\ optSt = "ok"
    /\ errNames = <<"Head", "blob">>
    /\ calls[Len(calls)].f = "compute_up"

=============================================================================
